---- MODULE Spec2Model ----
(***************************************************************************)
(* Booking core of the Hotel-API: createBooking (lock + transaction +      *)
(* availability query + inventory upsert), the booking lifecycle           *)
(* operations (updateBookingStatus, cancelBooking, updateUserBooking), the *)
(* payment-success handler, the in-memory cache/lock store and the         *)
(* transaction wrapper.                                                    *)
(*                                                                         *)
(* The store is modelled at the level of the SQL statements the services   *)
(* issue: committed tables, one private write set per open transaction     *)
(* (READ COMMITTED: a statement sees the committed rows plus the writes of *)
(* its own transaction), and row locks on written room_inventory rows.     *)
(* Queries that go through the pool (`query`) see committed rows only.     *)
(* Dates are day numbers; a timestamp is a number of hours, midnight of    *)
(* day d being hour 24 * d.                                                *)
(***************************************************************************)
EXTENDS Integers, FiniteSets, Sequences, TLC

\* ------------------------------------------------------------------ bounds
MaxDate == 2        \* nights are the days 1..MaxDate; a check-out is at most MaxDate + 1
MaxRequests == 1    \* createBooking calls issued per request handler
MaxOps == 2         \* lifecycle / payment operations per behaviour

\* --------------------------------------------------------- program constants
CancelWindowHours == 24
DefaultUnitsFallback == 10
ColumnDefaultTotalUnits == 1
HoursPerDay == 24

\* ------------------------------------------------------------ the data set
Users == {"u1", "u2"}
Rooms == {"rA", "rB"}
Procs == {"p1", "p2"}
SeedIds == {"b1", "b2"}
NewId == [p \in Procs |-> IF p = "p1" THEN "n1" ELSE "n2"]
BookingIds == SeedIds \cup {NewId[p] : p \in Procs}
Dates == 1..MaxDate
Clock == {0, 38}

\* absent rows and entries are records, so that they compare with rows
NoBooking == [absent |-> "booking"]
NoRow == [absent |-> "row"]
NoEntry == [absent |-> "entry"]
NoWrite == [absent |-> "write"]
NoAudit == [absent |-> "audit"]
\* a field the caller left undefined
IsSupplied(v) == v > 0

\* rooms table: both rooms belong to the one accommodation of the model
default_units == [r \in Rooms |-> IF r = "rA" THEN 1 ELSE 2]
price_per_night == [r \in Rooms |-> IF r = "rA" THEN 2 ELSE 3]

validStatuses == {"pending", "confirmed", "checked_in", "checked_out", "cancelled", "no_show"}

\* ----------------------------------------------------------------- helpers
RECURSIVE SumOver(_, _)
SumOver(S, f) ==
  IF S = {} THEN 0
  ELSE LET x == CHOOSE y \in S : TRUE IN f[x] + SumOver(S \ {x}, f)

MinOf(S) == CHOOSE m \in S : \A x \in S : m <= x

\* new Date(checkin_date).getTime() in hours
CheckinHour(d) == HoursPerDay * d

\* (checkinDate.getTime() - now.getTime()) / (1000 * 60 * 60)
HoursUntilCheckin(checkin, nowH) == CheckinHour(checkin) - nowH

\* Math.ceil((checkout - checkin) / one day) on date-only inputs
Nights(checkin, checkout) == checkout - checkin

\* b.checkin_date <= d AND b.checkout_date > d
Covers(bk, d) == bk.checkin_date <= d /\ bk.checkout_date > d

\* booked_units CTE: quantity of the room summed over the items of the
\* non-cancelled bookings that cover the date.  (The statement writes
\* SUM(bi.quantity); the only relation of the join that carries a quantity
\* is booking_items, joined as bi2.)
Booked(bks, r, d) ==
  LET live == {b \in DOMAIN bks : bks[b] # NoBooking /\ bks[b].status # "cancelled"
                                  /\ Covers(bks[b], d)}
  IN SumOver(live, [b \in live |-> bks[b].items[r]])

\* the series run up to the check-out day itself
DateSeries_Inclusive(checkin, checkout) == checkin..checkout

\* the recursive date_series CTE: check-in, then one day at a time while
\* check_date < check-out - 1 day
DateSeries(checkin, checkout) == {checkin} \cup {d \in (checkin + 1)..(checkout - 1) : TRUE}

\* COALESCE(r.default_units, 10): the fallback applies to a room whose
\* default_units is NULL
DefaultUnits(r) == IF r \in DOMAIN default_units THEN default_units[r] ELSE DefaultUnitsFallback

\* COALESCE(ri.available_units, r.default_units, 10)
AvailableUnits(iv, r, d) ==
  IF d \in Dates /\ iv[<<r, d>>] # NoRow THEN iv[<<r, d>>].available_units
  ELSE DefaultUnits(r)

\* inventory_check CTE: remaining = available - booked
Remaining(bks, iv, r, d) == AvailableUnits(iv, r, d) - Booked(bks, r, d)

\* SELECT room_id, MIN(remaining) ... GROUP BY room_id
MinAvailable(bks, iv, r, checkin, checkout) ==
  MinOf({Remaining(bks, iv, r, d) : d \in DateSeries(checkin, checkout)})

\* only the first requested room validated
ShortRooms_FirstOnly(bks, iv, rq) ==
  {i \in 1..1 :
     MinAvailable(bks, iv, rq.rooms[i].room_id, rq.checkin_date, rq.checkout_date)
       < rq.rooms[i].quantity}

\* the rooms of a request whose availability is below the requested quantity
ShortRooms(bks, iv, rq) ==
  {i \in 1..Len(rq.rooms) :
     MinAvailable(bks, iv, rq.rooms[i].room_id, rq.checkin_date, rq.checkout_date)
       < rq.rooms[i].quantity}

\* UPDATE room_inventory SET available_units = available_units + bi.quantity
\* FROM booking_items bi WHERE room_id = bi.room_id AND date >= $1 AND date < $2
RestoreInventory(iv, bk) ==
  [k \in DOMAIN iv |->
     IF iv[k] # NoRow /\ bk.items[k[1]] > 0
        /\ k[2] >= bk.checkin_date /\ k[2] < bk.checkout_date
     THEN [iv[k] EXCEPT !.available_units = @ + bk.items[k[1]]]
     ELSE iv[k]]

\* the rows the restore statement writes
RestoreRows(iv, bk) ==
  {k \in DOMAIN iv : iv[k] # NoRow /\ bk.items[k[1]] > 0
                     /\ k[2] >= bk.checkin_date /\ k[2] < bk.checkout_date}

\* ['pending', 'confirmed'].includes(booking.status)
CanCancel(status) == status \in {"pending", "confirmed"}

\* the window test with <= in place of <
InsideWindow_Inclusive(checkin, nowH) == HoursUntilCheckin(checkin, nowH) <= CancelWindowHours

\* hoursUntilCheckin < 24
InsideWindow(checkin, nowH) == HoursUntilCheckin(checkin, nowH) < CancelWindowHours

\* SELECT * FROM payments WHERE booking_id = $1 AND status = 'completed'
\* ORDER BY created_at DESC LIMIT 1  (payments are kept in creation order)
CompletedPayments(pays, b) ==
  {i \in 1..Len(pays) : pays[i].booking_id = b /\ pays[i].status = "completed"}

LatestCompleted(pays, b) ==
  CHOOSE i \in CompletedPayments(pays, b) : \A j \in CompletedPayments(pays, b) : j <= i

\* the refund row written as already completed
RefundRecord_Completed(b, payment, idx) ==
  [booking_id |-> b, provider |-> payment.provider, type |-> "refund",
   status |-> "completed", amount |-> payment.amount, currency |-> payment.currency,
   original_payment_id |-> idx]

\* the refund row cancelBooking inserts
RefundRecord(b, payment, idx) ==
  [booking_id |-> b, provider |-> payment.provider, type |-> "refund",
   status |-> "pending", amount |-> payment.amount, currency |-> payment.currency,
   original_payment_id |-> idx]

VARIABLES
  bookings,   \* committed bookings table (with its booking_items), by id
  inv,        \* committed room_inventory, by <<room, date>>
  payments,   \* committed payments, in creation order
  locks,      \* the __lock__ keys present in the cache store
  cache,      \* booking: entries of the cache store, by booking id
  now,        \* wall clock, in hours
  pc,         \* position of each createBooking handler
  req,        \* its request
  tx,         \* write set of its open transaction
  result,     \* outcome of its last call
  calls,      \* createBooking calls it has issued
  ops,        \* lifecycle operations performed so far
  resp,       \* response of the last lifecycle operation
  conn,       \* pool client of each handler's transaction() call
  audit       \* the entry the last lifecycle operation gave to logAudit, if any

vars == <<bookings, inv, payments, locks, cache, now, pc, req, tx, result, calls, ops, resp, conn, audit>>
dbVars == <<bookings, inv, payments>>
procVars == <<pc, req, tx, result, calls, conn>>

\* ------------------------------------------------------------------- Init
NoReq == [accommodation_id |-> "acc1", checkin_date |-> 0, checkout_date |-> 0,
          user |-> "u1", rooms |-> <<>>]
NoWrites == [k \in Rooms \X Dates |-> NoWrite]
NoTx == [open |-> FALSE, booking |-> NoBooking, inv |-> NoWrites, idx |-> 0]
\* no client checked out; released is the flag of getClient's release wrapper,
\* releases counts the calls of the pool's own release, raised is the first
\* error raised inside the try, lost tells that the connection is gone
NoConn == [held |-> FALSE, released |-> FALSE, releases |-> 0, raised |-> "none", lost |-> FALSE]

Item(r, q) == [x \in Rooms |-> IF x = r THEN q ELSE 0]

BookingRow(u, st, ci, co, items) ==
  [user_id |-> u, status |-> st, checkin_date |-> ci, checkout_date |-> co,
   items |-> items, nights |-> Nights(ci, co),
   total_amount |-> SumOver(Rooms, [r \in Rooms |-> price_per_night[r] * Nights(ci, co) * items[r]])]

\* bookings that exist before the first request: one per user, as the seed
\* data has them (one item each, pending / confirmed / cancelled)
SeedChoices(b) ==
  IF b = "b1"
  THEN {NoBooking} \cup
       {BookingRow("u1", st, 2, co, Item("rA", 1)) : st \in {"pending", "confirmed"}, co \in {3}}
  ELSE {NoBooking} \cup
       {BookingRow("u2", st, 1, 2, Item(r, 1)) :
           st \in {"pending", "cancelled"}, r \in Rooms}

\* room_inventory as the seed data builds it: a row for each night a seeded
\* booking touches, available_units lowered by the non-cancelled bookings
SeedInventory(bks) ==
  [k \in Rooms \X Dates |->
     IF \E b \in SeedIds : bks[b] # NoBooking /\ bks[b].items[k[1]] > 0 /\ Covers(bks[b], k[2])
     THEN [total_units |-> default_units[k[1]],
           available_units |-> default_units[k[1]] - Booked(bks, k[1], k[2])]
     ELSE NoRow]

SeedPayments(bks) ==
  IF bks["b1"] = NoBooking THEN {<<>>} ELSE
  {<<>>,
   <<[booking_id |-> "b1", provider |-> "stripe", type |-> "payment", status |-> "completed",
      amount |-> bks["b1"].total_amount, currency |-> "ZAR", original_payment_id |-> 0]>>,
   <<[booking_id |-> "b1", provider |-> "stripe", type |-> "payment", status |-> "pending",
      amount |-> bks["b1"].total_amount, currency |-> "ZAR", original_payment_id |-> 0]>>}

Init ==
  /\ \E s1 \in SeedChoices("b1"), s2 \in SeedChoices("b2") :
       bookings = [b \in BookingIds |-> IF b = "b1" THEN s1 ELSE IF b = "b2" THEN s2 ELSE NoBooking]
  /\ inv = SeedInventory(bookings)
  /\ payments \in SeedPayments(bookings)
  /\ locks = {}
  /\ cache = [b \in BookingIds |-> NoEntry]
  /\ now = 0
  /\ pc = [p \in Procs |-> "idle"]
  /\ req = [p \in Procs |-> NoReq]
  /\ tx = [p \in Procs |-> NoTx]
  /\ result = [p \in Procs |-> "none"]
  /\ calls = [p \in Procs |-> 0]
  /\ ops = 0
  /\ resp = [op |-> "none", outcome |-> "none"]
  /\ conn = [p \in Procs |-> NoConn]
  /\ audit = NoAudit

\* ------------------------------------------------- cache store (get/set/del)
\* getBookingById reads through the cache and, on a miss, through the pool:
\* the row it returns, or NoBooking when the SELECT finds no committed row
GetBookingById(ch, bks, b) == IF ch[b] # NoEntry THEN ch[b] ELSE bks[b]

\* the cache after getBookingById: a row read on a miss is stored
CacheAfterGet(ch, bks, b) ==
  IF ch[b] = NoEntry /\ bks[b] # NoBooking THEN [ch EXCEPT ![b] = bks[b]] ELSE ch

\* cache.del(key)
CacheDel(ch, b) == [ch EXCEPT ![b] = NoEntry]

\* room_inventory rows on which an open transaction holds a row lock
LockedRows == {k \in Rooms \X Dates : \E p \in Procs : tx[p].open /\ tx[p].inv[k] # NoWrite}

Respond(op, b, outcome) == resp' = [op |-> op, outcome |-> outcome] /\ audit' = NoAudit

\* the admin whose id the controller passes as userId
Actor == "admin1"

\* logAudit(userId, 'UPDATE_BOOKING_STATUS', {booking_id, old_status:
\* booking.status, new_status: status}); booking is the row RETURNING * gave
\* back, the row after the UPDATE
AuditEntry(row, b, status) ==
  [userId |-> Actor, action |-> "UPDATE_BOOKING_STATUS",
   booking_id |-> b, old_status |-> row.status, new_status |-> status]

RespondAudited(op, b, outcome, entry) == resp' = [op |-> op, outcome |-> outcome] /\ audit' = entry

\* ---------------------------------------------------- lifecycle operations
\* updateBookingStatus(bookingId, status, userId), one transaction
UpdateBookingStatus(b, status) ==
  /\ ops < MaxOps
  /\ ops' = ops + 1
  /\ UNCHANGED <<payments, locks, now, procVars>>
  /\ IF status \notin validStatuses
     THEN /\ Respond("updateBookingStatus", b, "InvalidStatus")
          /\ UNCHANGED <<bookings, inv, cache>>
     ELSE IF bookings[b] = NoBooking
     THEN /\ Respond("updateBookingStatus", b, "NotFound")
          /\ UNCHANGED <<bookings, inv, cache>>
     ELSE LET row == [bookings[b] EXCEPT !.status = status] IN
          /\ (status = "cancelled") => (RestoreRows(inv, row) \cap LockedRows = {})
          /\ bookings' = [bookings EXCEPT ![b] = row]
          /\ inv' = IF status = "cancelled" THEN RestoreInventory(inv, row) ELSE inv
          \* cache.del, then getBookingById through the pool before COMMIT
          /\ cache' = CacheAfterGet(CacheDel(cache, b), bookings, b)
          /\ RespondAudited("updateBookingStatus", b, "ok", AuditEntry(row, b, status))

\* cancelBooking(bookingId, userId, reason), one transaction
CancelBooking(b, u) ==
  /\ ops < MaxOps
  /\ ops' = ops + 1
  /\ UNCHANGED <<locks, now, procVars>>
  /\ IF bookings[b] = NoBooking \/ bookings[b].user_id # u
     THEN /\ Respond("cancelBooking", b, "NotFound")
          /\ UNCHANGED <<bookings, inv, payments, cache>>
     ELSE IF ~CanCancel(bookings[b].status)
     THEN /\ Respond("cancelBooking", b, "CancellationNotAllowed")
          /\ UNCHANGED <<bookings, inv, payments, cache>>
     ELSE IF InsideWindow(bookings[b].checkin_date, now)
     THEN /\ Respond("cancelBooking", b, "CancellationNotAllowed")
          /\ UNCHANGED <<bookings, inv, payments, cache>>
     ELSE /\ RestoreRows(inv, bookings[b]) \cap LockedRows = {}
          /\ bookings' = [bookings EXCEPT ![b].status = "cancelled"]
          /\ inv' = RestoreInventory(inv, bookings[b])
          /\ payments' =
               IF CompletedPayments(payments, b) # {}
               THEN LET i == LatestCompleted(payments, b)
                    IN Append(payments, RefundRecord(b, payments[i], i))
               ELSE payments
          /\ cache' = CacheDel(cache, b)
          \* logAudit(userId, 'CANCEL_BOOKING', {booking_id, reason})
          /\ RespondAudited("cancelBooking", b, "ok",
                            [userId |-> u, action |-> "CANCEL_BOOKING", booking_id |-> b])

\* -------------------------------------- lifecycle operations that throw
\* the catch block keeps what the statements before the throw had written
RolledBack_Partial(before, written) == written

\* catch { ROLLBACK; throw }: the store is as it was at BEGIN
RolledBack(before, written) == before

\* the statements of updateBookingStatus and of cancelBooking that reach the
\* store, in their order; "commit" is the COMMIT of the wrapper
StatusSteps == <<"update", "restore", "notify", "readback", "commit">>
CancelSteps == <<"select", "update", "restore", "payment", "refund", "notify", "commit">>
StepNo(steps, s) == CHOOSE i \in 1..Len(steps) : steps[i] = s

\* updateBookingStatus whose statement `step` raises a store error: the
\* statements before it have run on the transaction's client
UpdateBookingStatusFails(b, status, step) ==
  /\ ops < MaxOps
  /\ ops' = ops + 1
  /\ status \in validStatuses
  /\ bookings[b] # NoBooking
  /\ step = "restore" => status = "cancelled"
  /\ LET n == StepNo(StatusSteps, step)
         row == [bookings[b] EXCEPT !.status = status]
         wBookings == IF n > 1 THEN [bookings EXCEPT ![b] = row] ELSE bookings
         wInv == IF n > 2 /\ status = "cancelled" THEN RestoreInventory(inv, row) ELSE inv
     IN /\ (n > 2 /\ status = "cancelled") => (RestoreRows(inv, row) \cap LockedRows = {})
        /\ bookings' = RolledBack(bookings, wBookings)
        /\ inv' = RolledBack(inv, wInv)
        \* cache.del precedes the read-back, cache.set follows its query
        /\ cache' = IF step = "readback" THEN CacheDel(cache, b)
                    ELSE IF step = "commit" THEN CacheAfterGet(CacheDel(cache, b), bookings, b)
                    ELSE cache
        \* logAudit precedes the read-back
        /\ IF n > 3
           THEN RespondAudited("updateBookingStatus", b, "StoreError",
                               AuditEntry(row, b, status))
           ELSE Respond("updateBookingStatus", b, "StoreError")
  /\ UNCHANGED <<payments, locks, now, procVars>>

\* cancelBooking whose statement `step` raises a store error
CancelBookingFails(b, u, step) ==
  /\ ops < MaxOps
  /\ ops' = ops + 1
  /\ bookings[b] # NoBooking /\ bookings[b].user_id = u
  /\ step # "select" => (CanCancel(bookings[b].status) /\ ~InsideWindow(bookings[b].checkin_date, now))
  /\ step = "refund" => CompletedPayments(payments, b) # {}
  /\ LET n == StepNo(CancelSteps, step)
         wBookings == IF n > 2 THEN [bookings EXCEPT ![b].status = "cancelled"] ELSE bookings
         wInv == IF n > 3 THEN RestoreInventory(inv, bookings[b]) ELSE inv
         wPayments == IF n > 5 /\ CompletedPayments(payments, b) # {}
                      THEN LET i == LatestCompleted(payments, b)
                           IN Append(payments, RefundRecord(b, payments[i], i))
                      ELSE payments
     IN /\ n > 3 => (RestoreRows(inv, bookings[b]) \cap LockedRows = {})
        /\ bookings' = RolledBack(bookings, wBookings)
        /\ inv' = RolledBack(inv, wInv)
        /\ payments' = RolledBack(payments, wPayments)
        /\ cache' = IF step = "commit" THEN CacheDel(cache, b) ELSE cache
        /\ IF step = "commit"
           THEN RespondAudited("cancelBooking", b, "StoreError",
                               [userId |-> u, action |-> "CANCEL_BOOKING", booking_id |-> b])
           ELSE Respond("cancelBooking", b, "StoreError")
  /\ UNCHANGED <<locks, now, procVars>>

\* the fields an updateUserBooking request may carry
UpdateData ==
  {d \in [checkin_date : {0, 1}, checkout_date : {0, 2, MaxDate + 1}, other : BOOLEAN] :
     d.other => (d.checkin_date = 0 /\ d.checkout_date = 0)}

\* Object.keys(updateData)
UpdatedFields(data) ==
  (IF IsSupplied(data.checkin_date) THEN {"checkin_date"} ELSE {})
  \cup (IF IsSupplied(data.checkout_date) THEN {"checkout_date"} ELSE {})
  \cup (IF data.other THEN {"guest_count"} ELSE {})

\* the UPDATE also stores the nights and the amount of the new dates
ApplyUpdate_Recompute(row, data) ==
  LET ci == IF IsSupplied(data.checkin_date) THEN data.checkin_date ELSE row.checkin_date
      co == IF IsSupplied(data.checkout_date) THEN data.checkout_date ELSE row.checkout_date
  IN BookingRow(row.user_id, row.status, ci, co, row.items)

\* the dynamically built UPDATE bookings SET ... of updateUserBooking; other
\* stands for guest_count and notes, which the booking rows here do not carry
ApplyUpdate(row, data) ==
  [row EXCEPT
     !.checkin_date = IF IsSupplied(data.checkin_date) THEN data.checkin_date ELSE @,
     !.checkout_date = IF IsSupplied(data.checkout_date) THEN data.checkout_date ELSE @]

\* updateUserBooking(bookingId, userId, updateData), one transaction; the
\* update data is read only after the ownership, status and window checks
UpdateUserBooking(b, u) ==
  /\ ops < MaxOps
  /\ ops' = ops + 1
  /\ UNCHANGED <<inv, payments, locks, now, procVars>>
  /\ IF bookings[b] = NoBooking \/ bookings[b].user_id # u
     THEN /\ Respond("updateUserBooking", b, "NotFound")
          /\ UNCHANGED <<bookings, cache>>
     ELSE IF bookings[b].status # "pending"
     THEN /\ Respond("updateUserBooking", b, "NotPending")
          /\ UNCHANGED <<bookings, cache>>
     ELSE IF InsideWindow(bookings[b].checkin_date, now)
     THEN /\ Respond("updateUserBooking", b, "TooLate")
          /\ UNCHANGED <<bookings, cache>>
     ELSE \E data \in UpdateData :
          IF ~IsSupplied(data.checkin_date) /\ ~IsSupplied(data.checkout_date) /\ ~data.other
          THEN /\ Respond("updateUserBooking", b, "NoFields")
               /\ UNCHANGED <<bookings, cache>>
          ELSE /\ bookings' = [bookings EXCEPT ![b] = ApplyUpdate(@, data)]
               /\ cache' = CacheAfterGet(CacheDel(cache, b), bookings, b)
               \* logAudit(userId, 'UPDATE_USER_BOOKING', {booking_id,
               \* updated_fields: Object.keys(updateData)})
               /\ RespondAudited("updateUserBooking", b, "ok",
                                 [userId |-> u, action |-> "UPDATE_USER_BOOKING", booking_id |-> b,
                                  updated_fields |-> UpdatedFields(data)])

\* processPaymentSuccess(providerReference, provider), one transaction; the
\* webhook names the payment by its provider reference
ProcessPaymentSuccess(i) ==
  /\ ops < MaxOps
  /\ ops' = ops + 1
  /\ i \in 1..Len(payments)
  /\ payments[i].type = "payment"
  /\ payments' = [payments EXCEPT ![i].status = "completed"]
  /\ bookings' = [bookings EXCEPT ![payments[i].booking_id] =
                    IF @ = NoBooking THEN @ ELSE [@ EXCEPT !.status = "confirmed"]]
  /\ Respond("processPaymentSuccess", payments[i].booking_id, "ok")
  /\ UNCHANGED <<inv, locks, cache, now, procVars>>

\* verifyPayment(paymentId, provider), one transaction; success is the
\* provider's answer
VerifyPayment(i, success) ==
  /\ ops < MaxOps
  /\ ops' = ops + 1
  /\ i \in 1..Len(payments)
  /\ payments' = [payments EXCEPT ![i].status = IF success THEN "completed" ELSE "failed"]
  /\ bookings' = [bookings EXCEPT ![payments[i].booking_id] =
                    IF @ = NoBooking \/ ~success THEN @ ELSE [@ EXCEPT !.status = "confirmed"]]
  /\ Respond("verifyPayment", payments[i].booking_id, IF success THEN "ok" ELSE "failed")
  /\ UNCHANGED <<inv, locks, cache, now, procVars>>

\* the amount argument of refundPayment: 0 stands for an omitted amount,
\* 1 for a partial amount
RefundAmounts == {0, 1}

\* the amount and the provider's answer of the refundPayment calls
RefundInputs == {ra \in RefundAmounts \X BOOLEAN : ra[1] = 0 \/ ra[2]}

\* the row refundPayment inserts: amount || payment.amount, and the status
\* by the provider's answer
RefundPaymentRecord(payment, idx, amount, success) ==
  [booking_id |-> payment.booking_id, provider |-> payment.provider, type |-> "refund",
   status |-> IF success THEN "completed" ELSE "failed",
   amount |-> IF amount # 0 THEN amount ELSE payment.amount,
   currency |-> payment.currency, original_payment_id |-> idx]

\* refundPayment(paymentId, amount, reason), one transaction; success is the
\* provider's answer
RefundPayment(i, amount, success) ==
  /\ ops < MaxOps
  /\ ops' = ops + 1
  /\ i \in 1..Len(payments)
  /\ IF payments[i].status # "completed"
     THEN /\ Respond("refundPayment", payments[i].booking_id, "NotCompleted")
          /\ UNCHANGED payments
     ELSE /\ payments' = Append(payments, RefundPaymentRecord(payments[i], i, amount, success))
          /\ Respond("refundPayment", payments[i].booking_id, IF success THEN "ok" ELSE "failed")
  /\ UNCHANGED <<bookings, inv, locks, cache, now, procVars>>

\* wall-clock time passes
Tick ==
  /\ \E t \in Clock : t > now /\ now' = t
  /\ UNCHANGED <<bookings, inv, payments, locks, cache, procVars, ops, resp, audit>>

\* ------------------------------------------------------------ createBooking
ProcUser == [p \in Procs |-> IF p = "p1" THEN "u1" ELSE "u2"]

\* the rooms arrays of the requests
RoomLists ==
  {<<[room_id |-> "rA", quantity |-> 1]>>,
   <<[room_id |-> "rA", quantity |-> 1], [room_id |-> "rB", quantity |-> 1]>>}

\* a rooms array that names rX, a room of another accommodation
ForeignRoomList == <<[room_id |-> "rA", quantity |-> 1], [room_id |-> "rX", quantity |-> 1]>>

\* <<check-in, nights>> of the requests; zero nights is the invalid range
Stays == {s \in Dates \X (0..MaxDate) : s[1] + s[2] <= MaxDate + 1}

Requests(p) ==
  {[accommodation_id |-> "acc1", checkin_date |-> s[1], checkout_date |-> s[1] + s[2],
    user |-> ProcUser[p], rooms |-> rl] : s \in Stays, rl \in RoomLists}
  \cup
  {[accommodation_id |-> "acc1", checkin_date |-> 1, checkout_date |-> 1 + n,
    user |-> ProcUser[p], rooms |-> ForeignRoomList] : n \in 0..1}

\* `booking:create:${accommodation_id}:${checkin_date}`
LockKey(rq) == <<rq.accommodation_id, rq.checkin_date>>

\* the lock taken without looking at the store
LockFree_NoTest(held, key) == TRUE

\* withLock: while (store.has(lockKey)) wait; the test and the set run
\* without an await in between
LockFree(held, key) == key \notin held

\* nights < 0 in place of nights < 1
InvalidRange_Negative(n) == n < 0

\* if (nights < 1) throw new AppError('Invalid date range', 400)
InvalidRange(n) == n < 1

\* roomsResult.rows.length === roomIds.length (rooms of the accommodation)
RoomsFound(rq) ==
  Cardinality({rq.rooms[i].room_id : i \in 1..Len(rq.rooms)} \cap Rooms) = Len(rq.rooms)

\* the booking row and its items as the two INSERTs write them
NewBooking(rq) ==
  LET n == Nights(rq.checkin_date, rq.checkout_date)
      items == [r \in Rooms |->
                  SumOver({i \in 1..Len(rq.rooms) : rq.rooms[i].room_id = r},
                          [i \in 1..Len(rq.rooms) |-> rq.rooms[i].quantity])]
  IN [user_id |-> rq.user, status |-> "pending",
      checkin_date |-> rq.checkin_date, checkout_date |-> rq.checkout_date,
      items |-> items, nights |-> n,
      total_amount |-> SumOver(1..Len(rq.rooms),
                         [i \in 1..Len(rq.rooms) |->
                            price_per_night[rq.rooms[i].room_id] * n * rq.rooms[i].quantity])]

\* inventoryUpdates: for each item, one entry per night from check-in while
\* currentDate < checkout
InventoryUpdates(rq) ==
  LET n == Nights(rq.checkin_date, rq.checkout_date)
  IN [i \in 1..(Len(rq.rooms) * n) |->
        [room_id |-> rq.rooms[((i - 1) \div n) + 1].room_id,
         date |-> rq.checkin_date + ((i - 1) % n),
         quantity |-> rq.rooms[((i - 1) \div n) + 1].quantity]]

\* INSERT INTO room_inventory (room_id, date, available_units) VALUES (...,
\*   COALESCE(existing available_units, default_units, 10) - $3)
\* ON CONFLICT (room_id, date) DO UPDATE
\*   SET available_units = room_inventory.available_units - $3
\*   WHERE room_inventory.available_units >= $3
\* cur is the row the statement finds (NoRow: the INSERT goes through); the
\* result is the row afterwards
InventoryUpsert(cur, r, q) ==
  IF cur = NoRow
  THEN [total_units |-> ColumnDefaultTotalUnits, available_units |-> DefaultUnits(r) - q]
  ELSE IF cur.available_units >= q
  THEN [cur EXCEPT !.available_units = @ - q]
  ELSE cur

\* what the statements of p's transaction see: committed rows overlaid with
\* the transaction's own writes
TxInv(p) == [k \in Rooms \X Dates |-> IF tx[p].inv[k] # NoWrite THEN tx[p].inv[k] ELSE inv[k]]
TxBookings(p) ==
  IF tx[p].booking # NoBooking THEN [bookings EXCEPT ![NewId[p]] = tx[p].booking] ELSE bookings

\* the handler receives a request and enters withLock
CB_Call(p, rq) ==
  /\ pc[p] = "idle"
  /\ calls[p] < MaxRequests
  /\ bookings[NewId[p]] = NoBooking
  /\ pc' = [pc EXCEPT ![p] = "lock"]
  /\ req' = [req EXCEPT ![p] = rq]
  /\ result' = [result EXCEPT ![p] = "none"]
  /\ calls' = [calls EXCEPT ![p] = @ + 1]
  /\ UNCHANGED <<dbVars, locks, cache, now, tx, ops, resp, audit, conn>>

\* withLock finds the key free, sets it, and the callback opens the transaction
CB_Acquire(p) ==
  /\ pc[p] = "lock"
  /\ LockFree(locks, LockKey(req[p]))
  /\ locks' = locks \cup {LockKey(req[p])}
  /\ tx' = [tx EXCEPT ![p] = [NoTx EXCEPT !.open = TRUE]]
  /\ pc' = [pc EXCEPT ![p] = "begin"]
  /\ UNCHANGED <<dbVars, cache, now, req, result, calls, ops, resp, audit, conn>>

\* the key stayed taken for longer than the timeout: throw 'Lock timeout'
CB_LockTimeout(p) ==
  /\ pc[p] = "lock"
  /\ ~LockFree(locks, LockKey(req[p]))
  /\ result' = [result EXCEPT ![p] = "LockTimeout"]
  /\ pc' = [pc EXCEPT ![p] = "idle"]
  /\ UNCHANGED <<dbVars, locks, cache, now, req, tx, calls, ops, resp, audit, conn>>

\* nights check, rooms query, availability query, validation, and the
\* INSERTs of the booking and its items; a throw rolls the transaction back
CB_Validate(p) ==
  /\ pc[p] = "begin"
  /\ LET rq == req[p]
         fail == IF InvalidRange(Nights(rq.checkin_date, rq.checkout_date)) THEN "InvalidDateRange"
                 ELSE IF ~RoomsFound(rq) THEN "RoomNotFound"
                 ELSE IF ShortRooms(TxBookings(p), TxInv(p), rq) # {}
                      THEN "InsufficientAvailability"
                 ELSE "none"
     IN IF fail # "none"
        THEN /\ result' = [result EXCEPT ![p] = fail]
             /\ tx' = [tx EXCEPT ![p] = NoTx]
             /\ pc' = [pc EXCEPT ![p] = "release"]
        ELSE /\ tx' = [tx EXCEPT ![p].booking = NewBooking(rq), ![p].idx = 1]
             /\ pc' = [pc EXCEPT ![p] = "inventory"]
             /\ UNCHANGED result
  /\ UNCHANGED <<dbVars, locks, cache, now, req, calls, ops, resp, audit, conn>>

\* one statement of the inventory loop; it waits while another open
\* transaction holds the row
CB_InventoryUpdate(p) ==
  /\ pc[p] = "inventory"
  /\ tx[p].idx <= Len(InventoryUpdates(req[p]))
  /\ LET u == InventoryUpdates(req[p])[tx[p].idx]
         k == <<u.room_id, u.date>>
     IN /\ \A q \in Procs \ {p} : ~(tx[q].open /\ tx[q].inv[k] # NoWrite)
        /\ tx' = [tx EXCEPT ![p].inv[k] = InventoryUpsert(TxInv(p)[k], u.room_id, u.quantity),
                            ![p].idx = @ + 1]
  /\ UNCHANGED <<dbVars, locks, cache, now, pc, req, result, calls, ops, resp, audit, conn>>

\* after the loop: INSERT INTO notifications, logAudit,
\* cache.delPattern('availability:*')
CB_Notify(p) ==
  /\ pc[p] = "inventory"
  /\ tx[p].idx > Len(InventoryUpdates(req[p]))
  /\ pc' = [pc EXCEPT ![p] = "readback"]
  /\ UNCHANGED <<dbVars, locks, cache, now, req, tx, result, calls, ops, resp, audit, conn>>

\* the INSERT INTO notifications raises: it is awaited on the transaction's
\* client with no try around it, so the callback throws and the wrapper
\* rolls back
CB_NotifyFails(p) ==
  /\ pc[p] = "inventory"
  /\ tx[p].idx > Len(InventoryUpdates(req[p]))
  /\ result' = [result EXCEPT ![p] = "StoreError"]
  /\ tx' = [tx EXCEPT ![p] = NoTx]
  /\ pc' = [pc EXCEPT ![p] = "release"]
  /\ UNCHANGED <<dbVars, locks, cache, now, req, calls, ops, resp, audit, conn>>

\* return await getBookingById(booking.id): through the cache and the pool,
\* not the transaction's client; then COMMIT, or ROLLBACK when it throws
CB_ReadBack(p) ==
  /\ pc[p] = "readback"
  /\ LET row == GetBookingById(cache, bookings, NewId[p]) IN
     IF row = NoBooking
     THEN /\ result' = [result EXCEPT ![p] = "BookingNotFound"]
          /\ UNCHANGED <<dbVars, cache>>
     ELSE /\ result' = [result EXCEPT ![p] = "ok"]
          /\ cache' = CacheAfterGet(cache, bookings, NewId[p])
          /\ bookings' = TxBookings(p)
          /\ inv' = TxInv(p)
          /\ UNCHANGED payments
  /\ tx' = [tx EXCEPT ![p] = NoTx]
  /\ pc' = [pc EXCEPT ![p] = "release"]
  /\ UNCHANGED <<locks, now, req, calls, ops, resp, audit, conn>>

\* the key deleted only after a callback that returned normally
CB_Release_OnlyOnSuccess(p) ==
  /\ pc[p] = "release"
  /\ locks' = IF result[p] = "ok" THEN locks \ {LockKey(req[p])} ELSE locks
  /\ pc' = [pc EXCEPT ![p] = "idle"]
  /\ UNCHANGED <<dbVars, cache, now, req, tx, result, calls, ops, resp, audit, conn>>

\* finally { store.delete(lockKey) }
CB_Release(p) ==
  /\ pc[p] = "release"
  /\ locks' = locks \ {LockKey(req[p])}
  /\ pc' = [pc EXCEPT ![p] = "idle"]
  /\ UNCHANGED <<dbVars, cache, now, req, tx, result, calls, ops, resp, audit, conn>>

\* ------------------------- createBooking of the accommodation-level service
\* amounts a caller may put in the request's total_amount
Amounts == {0, 1, 7}

\* bookingData of the accommodation-level createBooking: no rooms, and a
\* total_amount taken from the request body
DirectRequests(p) ==
  {[accommodation_id |-> "acc1", checkin_date |-> s[1], checkout_date |-> s[1] + s[2],
    user |-> ProcUser[p], rooms |-> <<>>, total_amount |-> a] : s \in Stays, a \in Amounts}

\* the booking row as the single INSERT writes it: total_amount is the
\* request's, and no booking_items are written
DirectBooking(rq) ==
  [user_id |-> rq.user, status |-> "pending",
   checkin_date |-> rq.checkin_date, checkout_date |-> rq.checkout_date,
   items |-> [r \in Rooms |-> 0], nights |-> Nights(rq.checkin_date, rq.checkout_date),
   total_amount |-> rq.total_amount]

\* the handler receives a request and enters withLock
CBA_Call(p, rq) ==
  /\ pc[p] = "idle"
  /\ calls[p] < MaxRequests
  /\ bookings[NewId[p]] = NoBooking
  /\ pc' = [pc EXCEPT ![p] = "lock"]
  /\ req' = [req EXCEPT ![p] = rq]
  /\ result' = [result EXCEPT ![p] = "none"]
  /\ calls' = [calls EXCEPT ![p] = @ + 1]
  /\ UNCHANGED <<dbVars, locks, cache, now, tx, ops, resp, audit, conn>>

\* nights check, INSERT INTO bookings, INSERT INTO notifications, logAudit,
\* cache.delPattern('availability:*'); a throw rolls the transaction back
CBA_Insert(p) ==
  /\ pc[p] = "begin"
  /\ IF InvalidRange(Nights(req[p].checkin_date, req[p].checkout_date))
     THEN /\ result' = [result EXCEPT ![p] = "InvalidDateRange"]
          /\ tx' = [tx EXCEPT ![p] = NoTx]
          /\ pc' = [pc EXCEPT ![p] = "release"]
     ELSE /\ tx' = [tx EXCEPT ![p].booking = DirectBooking(req[p])]
          /\ pc' = [pc EXCEPT ![p] = "readback"]
          /\ UNCHANGED result
  /\ UNCHANGED <<dbVars, locks, cache, now, req, calls, ops, resp, audit, conn>>

\* return await getBookingById(booking.id, client): through the cache and
\* the transaction's own client, which sees the row just inserted; the row
\* is cached, then COMMIT
CBA_ReadBack(p) ==
  /\ pc[p] = "readback"
  /\ LET row == GetBookingById(cache, TxBookings(p), NewId[p]) IN
     IF row = NoBooking
     THEN /\ result' = [result EXCEPT ![p] = "BookingNotFound"]
          /\ UNCHANGED <<dbVars, cache>>
     ELSE /\ result' = [result EXCEPT ![p] = "ok"]
          /\ cache' = CacheAfterGet(cache, TxBookings(p), NewId[p])
          /\ bookings' = TxBookings(p)
          /\ UNCHANGED <<inv, payments>>
  /\ tx' = [tx EXCEPT ![p] = NoTx]
  /\ pc' = [pc EXCEPT ![p] = "release"]
  /\ UNCHANGED <<locks, now, req, calls, ops, resp, audit, conn>>

NextDirect ==
  \/ \E p \in Procs : \E rq \in DirectRequests(p) : CBA_Call(p, rq)
  \/ \E p \in Procs : CB_Acquire(p)
  \/ \E p \in Procs : CB_LockTimeout(p)
  \/ \E p \in Procs : CBA_Insert(p)
  \/ \E p \in Procs : CBA_ReadBack(p)
  \/ \E p \in Procs : CB_Release(p)

\* ------------------------------------------------- transaction(callback)
\* the statements of the transaction wrapper around a callback that writes
\* room_inventory rows and then returns or throws
FnErrors == {"AppError", "StoreError"}

\* const client = await getClient()
TX_GetClient(p) ==
  /\ pc[p] = "idle"
  /\ calls[p] < MaxRequests
  /\ calls' = [calls EXCEPT ![p] = @ + 1]
  /\ conn' = [conn EXCEPT ![p] = [NoConn EXCEPT !.held = TRUE]]
  /\ result' = [result EXCEPT ![p] = "none"]
  /\ pc' = [pc EXCEPT ![p] = "tx_begin"]
  /\ UNCHANGED <<dbVars, locks, cache, now, req, tx, ops, resp, audit>>

\* await client.query('BEGIN')
TX_Begin(p) ==
  /\ pc[p] = "tx_begin"
  /\ tx' = [tx EXCEPT ![p] = [NoTx EXCEPT !.open = TRUE]]
  /\ pc' = [pc EXCEPT ![p] = "tx_fn"]
  /\ UNCHANGED <<dbVars, locks, cache, now, req, result, calls, ops, resp, audit, conn>>

\* a statement of the callback: it takes one unit of a room on a date
TX_Write(p, k) ==
  /\ pc[p] = "tx_fn"
  /\ tx[p].idx < 1
  /\ \A q \in Procs \ {p} : ~(tx[q].open /\ tx[q].inv[k] # NoWrite)
  /\ tx' = [tx EXCEPT ![p].inv[k] = InventoryUpsert(TxInv(p)[k], k[1], 1), ![p].idx = @ + 1]
  /\ UNCHANGED <<dbVars, locks, cache, now, pc, req, result, calls, ops, resp, audit, conn>>

\* const result = await callback(client) returns
TX_FnReturn(p) ==
  /\ pc[p] = "tx_fn"
  /\ pc' = [pc EXCEPT ![p] = "tx_commit"]
  /\ UNCHANGED <<dbVars, locks, cache, now, req, tx, result, calls, ops, resp, audit, conn>>

\* the callback throws: an AppError of its own, or the error of a statement
\* the store refused, with the connection kept or lost
TX_FnThrow(p, e, lost) ==
  /\ pc[p] = "tx_fn"
  /\ lost => e = "StoreError"
  /\ conn' = [conn EXCEPT ![p].raised = e, ![p].lost = lost]
  /\ pc' = [pc EXCEPT ![p] = "tx_catch"]
  /\ UNCHANGED <<dbVars, locks, cache, now, req, tx, result, calls, ops, resp, audit>>

\* await client.query('COMMIT'); return result
TX_Commit(p) ==
  /\ pc[p] = "tx_commit"
  /\ inv' = TxInv(p)
  /\ tx' = [tx EXCEPT ![p] = NoTx]
  /\ result' = [result EXCEPT ![p] = "ok"]
  /\ pc' = [pc EXCEPT ![p] = "tx_finally"]
  /\ UNCHANGED <<bookings, payments, locks, cache, now, req, calls, ops, resp, audit, conn>>

\* COMMIT raises: the server aborts the transaction
TX_CommitFails(p, lost) ==
  /\ pc[p] = "tx_commit"
  /\ conn' = [conn EXCEPT ![p].raised = "CommitError", ![p].lost = lost]
  /\ pc' = [pc EXCEPT ![p] = "tx_catch"]
  /\ UNCHANGED <<dbVars, locks, cache, now, req, tx, result, calls, ops, resp, audit>>

\* catch (error) { await client.query('ROLLBACK'); throw error }: on a lost
\* connection the ROLLBACK query itself rejects, and that rejection is what
\* leaves the catch block; the server has dropped the transaction either way
TX_Rollback(p) ==
  /\ pc[p] = "tx_catch"
  /\ tx' = [tx EXCEPT ![p] = NoTx]
  /\ result' = [result EXCEPT ![p] = IF conn[p].lost THEN "RollbackError" ELSE conn[p].raised]
  /\ pc' = [pc EXCEPT ![p] = "tx_finally"]
  /\ UNCHANGED <<dbVars, locks, cache, now, req, calls, ops, resp, audit, conn>>

\* finally { client.release() }: the wrapper calls the pool's release unless
\* it already did
TX_Release(p) ==
  /\ pc[p] = "tx_finally"
  /\ conn' = [conn EXCEPT ![p].held = FALSE,
                          ![p].released = TRUE,
                          ![p].releases = IF conn[p].released THEN @ ELSE @ + 1]
  /\ pc' = [pc EXCEPT ![p] = "idle"]
  /\ UNCHANGED <<dbVars, locks, cache, now, req, tx, result, calls, ops, resp, audit>>

NextTx ==
  \/ \E p \in Procs : TX_GetClient(p)
  \/ \E p \in Procs : TX_Begin(p)
  \/ \E p \in Procs, k \in Rooms \X Dates : TX_Write(p, k)
  \/ \E p \in Procs : TX_FnReturn(p)
  \/ \E p \in Procs, e \in FnErrors, lost \in BOOLEAN : TX_FnThrow(p, e, lost)
  \/ \E p \in Procs : TX_Commit(p)
  \/ \E p \in Procs, lost \in BOOLEAN : TX_CommitFails(p, lost)
  \/ \E p \in Procs : TX_Rollback(p)
  \/ \E p \in Procs : TX_Release(p)

NextCreate ==
  \/ \E p \in Procs : \E rq \in Requests(p) : CB_Call(p, rq)
  \/ \E p \in Procs : CB_Acquire(p)
  \/ \E p \in Procs : CB_LockTimeout(p)
  \/ \E p \in Procs : CB_Validate(p)
  \/ \E p \in Procs : CB_InventoryUpdate(p)
  \/ \E p \in Procs : CB_Notify(p)
  \/ \E p \in Procs : CB_NotifyFails(p)
  \/ \E p \in Procs : CB_ReadBack(p)
  \/ \E p \in Procs : CB_Release(p)

\* the target statuses the requests carry: four of the recognised ones and
\* one that is not
StatusInputs == {"pending", "confirmed", "checked_out", "cancelled", "archived"}

\* the booking ids the lifecycle requests name: the seeded bookings and an
\* id that has no row
LifeIds == SeedIds \cup {NewId["p1"]}

NextLife ==
  \/ \E b \in LifeIds, s \in StatusInputs : UpdateBookingStatus(b, s)
  \/ \E b \in LifeIds, u \in Users : CancelBooking(b, u)
  \/ \E b \in SeedIds, s \in {"confirmed", "cancelled"}, i \in 1..Len(StatusSteps) :
       UpdateBookingStatusFails(b, s, StatusSteps[i])
  \/ \E b \in SeedIds, u \in Users, i \in 1..Len(CancelSteps) :
       CancelBookingFails(b, u, CancelSteps[i])
  \/ \E b \in LifeIds, u \in Users : UpdateUserBooking(b, u)
  \/ \E i \in 1..Len(payments) : ProcessPaymentSuccess(i)
  \/ \E i \in 1..Len(payments), success \in BOOLEAN : VerifyPayment(i, success)
  \/ \E i \in 1..Len(payments), ra \in RefundInputs : RefundPayment(i, ra[1], ra[2])
  \/ Tick

Next == NextCreate \/ NextLife \/ NextTx \/ NextDirect

Spec == Init /\ [][Next]_vars
\* createBooking alone, from the stores without payments
InitCreate == Init /\ payments = <<>> /\ (bookings["b1"] # NoBooking => bookings["b1"].status = "pending")
SpecCreate == InitCreate /\ [][NextCreate]_vars
SpecLife == Init /\ [][NextLife]_vars
\* the transaction wrapper alone
SpecTx == InitCreate /\ [][NextTx]_vars
\* the accommodation-level createBooking alone
SpecDirect == InitCreate /\ [][NextDirect]_vars

\* ================================================================= claims
\* total unit count of a room on a date: the inventory row's total_units when
\* a row exists, the room's default unit count otherwise
TotalUnits(r, d) == IF inv[<<r, d>>] # NoRow THEN inv[<<r, d>>].total_units ELSE default_units[r]

\* units of a room reserved on a date by the non-cancelled bookings
Reserved(r, d) ==
  LET live == {b \in BookingIds : bookings[b] # NoBooking /\ bookings[b].status # "cancelled"
                                  /\ bookings[b].checkin_date <= d /\ d < bookings[b].checkout_date}
  IN SumOver(live, [b \in live |-> bookings[b].items[r]])

InCallback(p) == pc[p] \in {"begin", "inventory", "readback", "release"}
SameKey(p, q) == req[p].accommodation_id = req[q].accommodation_id
                 /\ req[p].checkin_date = req[q].checkin_date

\* C1: for every room and date, the quantity reserved by the non-cancelled
\* bookings covering the date never exceeds the room's total units that date.
C1_NoOverbooking ==
  \A r \in Rooms, d \in Dates : Reserved(r, d) <= TotalUnits(r, d)

\* C2: of two createBooking requests for one unit of the same room whose
\* stays share a night on which the room has one unit, once both have
\* returned (neither by a lock timeout) exactly one succeeded and the other
\* failed with InsufficientAvailability.
OneUnitOf(p, r) == req[p].rooms = <<[room_id |-> r, quantity |-> 1]>>
SharedSingleNight(p, q, r) ==
  \E d \in Dates :
    /\ req[p].checkin_date <= d /\ d < req[p].checkout_date
    /\ req[q].checkin_date <= d /\ d < req[q].checkout_date
    /\ TotalUnits(r, d) - SumOver(SeedIds, [b \in SeedIds |->
           IF bookings[b] # NoBooking /\ bookings[b].status # "cancelled"
              /\ bookings[b].checkin_date <= d /\ d < bookings[b].checkout_date
           THEN bookings[b].items[r] ELSE 0]) = 1
Returned(p) == pc[p] = "idle" /\ result[p] \notin {"none", "LockTimeout"}
C2_ExactlyOneWins ==
  (/\ Returned("p1") /\ Returned("p2")
   /\ OneUnitOf("p1", "rA") /\ OneUnitOf("p2", "rA")
   /\ SharedSingleNight("p1", "p2", "rA"))
  => \/ result["p1"] = "ok" /\ result["p2"] = "InsufficientAvailability"
     \/ result["p2"] = "ok" /\ result["p1"] = "InsufficientAvailability"

\* C3: two requests with the same lock key are never inside the lock at the
\* same time, never have their transactions open together, and a request is
\* inside the lock only while the lock entry of its key is present.
C3_Serialized ==
  \A p \in Procs :
    /\ InCallback(p) => LockKey(req[p]) \in locks
    /\ tx[p].open => InCallback(p)
    /\ \A q \in Procs \ {p} : (InCallback(p) /\ InCallback(q)) => ~SameKey(p, q)

\* a request waits for the key while the other request holds it
C3_Witness ==
  pc["p1"] = "readback" /\ pc["p2"] = "lock" /\ SameKey("p1", "p2")

\* C4: when the validation step of a request finds a requested room short,
\* the request fails with InsufficientAvailability and nothing is written:
\* the committed tables are unchanged by the step and by the release that
\* follows, and the transaction's write set is discarded.
SomeRoomShort(rq) ==
  \E i \in 1..Len(rq.rooms) :
    \E d \in rq.checkin_date..(rq.checkout_date - 1) :
      AvailableUnits(inv, rq.rooms[i].room_id, d) - Reserved(rq.rooms[i].room_id, d)
        < rq.rooms[i].quantity
C5_ValidRequestCommits ==
  [][\A p \in Procs :
       (pc[p] = "readback" /\ pc'[p] = "release")
       => /\ result'[p] = "ok"
          /\ bookings'[NewId[p]] # NoBooking
          /\ bookings'[NewId[p]].status = "pending"
          /\ \A i \in 1..Len(req[p].rooms) :
               bookings'[NewId[p]].items[req[p].rooms[i].room_id] = req[p].rooms[i].quantity
    ]_vars

\* C6: on a store where room rA (one unit) has no inventory row and no
\* booking, a request for rA over [D, D+2) succeeds and leaves rows for D and
\* D+1 with available_units = 0.
CleanRoom(r) ==
  /\ \A d \in Dates : inv[<<r, d>>] = NoRow
  /\ \A b \in BookingIds : bookings[b] # NoBooking => bookings[b].items[r] = 0
C6_ScenarioA ==
  [][\A p \in Procs :
       (/\ pc[p] = "readback" /\ pc'[p] = "release"
        /\ OneUnitOf(p, "rA") /\ req[p].checkout_date = req[p].checkin_date + 2
        /\ CleanRoom("rA"))
       => /\ result'[p] = "ok"
          /\ \A d \in {req[p].checkin_date, req[p].checkin_date + 1} :
               /\ inv'[<<"rA", d>>] # NoRow
               /\ inv'[<<"rA", d>>].available_units = 0
    ]_vars

\* C7: a cancel attempt on a booking that is already cancelled (cancelBooking
\* by a user, or updateBookingStatus with target cancelled) fails and leaves
\* room_inventory unchanged.
C7_NoSecondRestore ==
  [][\A b \in BookingIds :
       (/\ bookings[b] # NoBooking
        /\ bookings[b].status = "cancelled"
        /\ \/ \E u \in Users : CancelBooking(b, u)
           \/ UpdateBookingStatus(b, "cancelled"))
       => (resp'.outcome # "ok" /\ inv' = inv)
    ]_vars

C9_CancelPolicy ==
  [][\A b \in BookingIds, u \in Users :
       (/\ resp'.op = "cancelBooking" /\ bookings[b] # NoBooking /\ bookings[b].user_id = u
        /\ CancelBooking(b, u))
       => IF bookings[b].status \in {"pending", "confirmed"}
             /\ 24 * bookings[b].checkin_date - now >= 24
          THEN resp'.outcome = "ok" /\ bookings'[b].status = "cancelled"
          ELSE /\ resp'.outcome = "CancellationNotAllowed"
               /\ bookings' = bookings /\ inv' = inv /\ payments' = payments
    ]_vars

\* the owner cancelled b1 48 hours before its check-in
C9_Witness ==
  /\ resp = [op |-> "cancelBooking", outcome |-> "ok"]
  /\ bookings["b1"] # NoBooking /\ bookings["b1"].status = "cancelled"
  /\ 24 * bookings["b1"].checkin_date - now = 48
  /\ ops = 1

\* C10: a successful cancelBooking appends exactly one payment row when the
\* booking has a completed payment (status pending, with amount, currency
\* and provider of a completed payment of the booking) and none otherwise;
\* the rows that existed are unchanged.
C10_RefundRecord ==
  [][\A b \in BookingIds, u \in Users :
       (/\ resp' = [op |-> "cancelBooking", outcome |-> "ok"]
        /\ bookings[b] # NoBooking /\ bookings[b].user_id = u
        /\ bookings[b].status # "cancelled"
        /\ CancelBooking(b, u))
       => LET done == {i \in 1..Len(payments) :
                         payments[i].booking_id = b /\ payments[i].status = "completed"}
          IN IF done # {}
             THEN /\ Len(payments') = Len(payments) + 1
                  /\ SubSeq(payments', 1, Len(payments)) = payments
                  /\ payments'[Len(payments')].status = "pending"
                  /\ payments'[Len(payments')].booking_id = b
                  /\ \E i \in done :
                       /\ payments'[Len(payments')].amount = payments[i].amount
                       /\ payments'[Len(payments')].currency = payments[i].currency
                       /\ payments'[Len(payments')].provider = payments[i].provider
             ELSE payments' = payments
    ]_vars

\* b1 had a completed payment and was cancelled: the refund row is there
C10_Witness ==
  /\ resp = [op |-> "cancelBooking", outcome |-> "ok"]
  /\ Len(payments) = 2
  /\ payments[1].status = "completed" /\ payments[2].status = "pending"
  /\ payments[2].original_payment_id = 1
  /\ bookings["b1"].status = "cancelled"

\* C11: checked_out, cancelled and no_show are terminal: no step changes the
\* status of a booking that has one of them.
TerminalStatuses == {"checked_out", "cancelled", "no_show"}
C11_TerminalStates ==
  [][\A b \in BookingIds :
       (bookings[b] # NoBooking /\ bookings[b].status \in TerminalStatuses)
       => (bookings'[b] # NoBooking /\ bookings'[b].status = bookings[b].status)
    ]_vars

\* C12: the callback is entered only from the wait, by a step that finds no
\* entry for the key and sets it; a wait that ends without the lock ends with
\* the lock-timeout error, opens no transaction and writes nothing to the
\* tables or the cache.
C12_LockOrTimeout ==
  [][\A p \in Procs :
       /\ (pc[p] = "lock" /\ pc'[p] = "begin")
          => (LockKey(req[p]) \notin locks /\ LockKey(req[p]) \in locks')
       /\ (pc[p] \notin {"lock", "begin"} /\ pc'[p] # pc[p]) => pc'[p] # "begin"
       /\ (~tx[p].open /\ tx'[p].open) => (pc[p] = "lock" /\ pc'[p] = "begin")
       /\ (pc[p] = "lock" /\ pc'[p] = "idle")
          => /\ result'[p] = "LockTimeout"
             /\ bookings' = bookings /\ inv' = inv /\ payments' = payments
             /\ cache' = cache /\ tx' = tx
    ]_vars

\* a request gave up waiting while the other one held the key
C12_Witness ==
  /\ pc["p2"] = "idle" /\ result["p2"] = "LockTimeout"
  /\ pc["p1"] = "inventory" /\ SameKey("p1", "p2")

\* C13: every lock entry belongs to a request that is inside its callback
\* (so the entry is gone once the callback has returned or thrown), and a
\* waiter that times out leaves the entries as they are.
C13_AlwaysReleased ==
  [][/\ \A k \in locks' :
          \E p \in Procs : /\ pc'[p] \in {"begin", "inventory", "readback", "release"}
                            /\ LockKey(req'[p]) = k
     /\ \A p \in Procs : (pc[p] = "lock" /\ pc'[p] = "idle") => locks' = locks
     /\ \A p \in Procs : (pc[p] = "release" /\ pc'[p] = "idle") => LockKey(req[p]) \notin locks'
    ]_vars

\* after a callback that threw, the other request acquired the same key
C13_Witness ==
  /\ pc["p1"] = "idle" /\ result["p1"] \in {"BookingNotFound", "InsufficientAvailability"}
  /\ pc["p2"] = "begin" /\ SameKey("p1", "p2")
  /\ locks = {LockKey(req["p2"])}

\* C14: transaction(fn) commits when fn returned normally; when fn or COMMIT
\* raised it leaves the committed tables unchanged, discards the writes and
\* throws the error that was raised; the pool's release is called exactly
\* once per call.
C14_TransactionContract ==
  [][\A p \in Procs :
       /\ (pc[p] = "tx_commit" /\ pc'[p] = "tx_finally")
          => (inv' = TxInv(p) /\ result'[p] = "ok")
       /\ (pc[p] = "tx_catch" /\ pc'[p] = "tx_finally")
          => (inv' = inv /\ tx'[p] = NoTx /\ result'[p] = conn[p].raised)
       /\ (pc[p] = "tx_finally" /\ pc'[p] = "idle") => conn'[p].releases = 1
    ]_vars

\* C15: a request whose check-out is not after its check-in fails with
\* InvalidDateRange, and a request with dates in order that names a room
\* outside the accommodation fails with RoomNotFound, whatever the
\* availability; in both cases the transaction has written nothing when the
\* error is raised and the committed tables stay as they are.
RoomMissing(rq) == \E i \in 1..Len(rq.rooms) : rq.rooms[i].room_id \notin Rooms
C15_ValidationErrors ==
  [][\A p \in Procs :
       (pc[p] = "begin" /\ pc'[p] # "begin"
        /\ (req[p].checkout_date <= req[p].checkin_date \/ RoomMissing(req[p])))
       => /\ result'[p] = IF req[p].checkout_date <= req[p].checkin_date
                          THEN "InvalidDateRange" ELSE "RoomNotFound"
          /\ tx[p].booking = NoBooking /\ tx[p].inv = NoWrites
          /\ tx'[p] = NoTx
          /\ bookings' = bookings /\ inv' = inv /\ payments' = payments
    ]_vars

\* one request was refused for a foreign room, the other for its dates
C15_Witness ==
  /\ pc["p1"] = "idle" /\ result["p1"] = "RoomNotFound"
  /\ pc["p2"] = "idle" /\ result["p2"] = "InvalidDateRange"
  /\ req["p2"].checkin_date = req["p2"].checkout_date

\* C16: every stored booking has its check-out after its check-in, and the
\* nights stored with it equal the day difference of its current dates.
C16_DatesAndNights ==
  \A b \in BookingIds :
    bookings[b] # NoBooking
    => /\ bookings[b].checkout_date > bookings[b].checkin_date
       /\ bookings[b].nights = bookings[b].checkout_date - bookings[b].checkin_date

C18_SparseInventory ==
  [][\A k \in Rooms \X Dates :
       /\ (inv[k] = NoRow /\ inv'[k] # NoRow)
          => \E p \in Procs :
               /\ pc[p] = "readback" /\ pc'[p] = "release"
               /\ req[p].checkin_date <= k[2] /\ k[2] < req[p].checkout_date
               /\ \E i \in 1..Len(req[p].rooms) : req[p].rooms[i].room_id = k[1]
       /\ inv'[k] = NoRow
          => \A b \in BookingIds :
               (/\ bookings'[b] # NoBooking /\ bookings'[b].status # "cancelled"
                /\ bookings'[b].checkin_date <= k[2] /\ k[2] < bookings'[b].checkout_date)
               => bookings'[b].items[k[1]] = 0
    ]_vars

\* C19: for a request with dates in order and rooms of the accommodation,
\* the value the availability query returns for a room is the least, over
\* the nights check-in .. check-out - 1, of the night's spare units (the
\* row's available_units or the room's default, less the units reserved by
\* non-cancelled bookings), and the request is refused with
\* InsufficientAvailability exactly when some night of the stay has fewer
\* spare units than the quantity asked of a room.
SpareUnits(r, d) == AvailableUnits(inv, r, d) - Reserved(r, d)
StayNights(rq) == rq.checkin_date..(rq.checkout_date - 1)
C20_TotalFromPrices ==
  \A p \in Procs :
    bookings[NewId[p]] # NoBooking
    => bookings[NewId[p]].total_amount
         = SumOver(Rooms, [r \in Rooms |->
             price_per_night[r]
               * Nights(bookings[NewId[p]].checkin_date, bookings[NewId[p]].checkout_date)
               * bookings[NewId[p]].items[r]])

\* C21: an updateBookingStatus or cancelBooking that does not succeed
\* (InvalidStatus, not found, refused by the cancellation policy, or a store
\* error in any of its statements) leaves bookings, room_inventory and
\* payments exactly as they were before the call.
C21_FailedTransitionChangesNothing ==
  [][(/\ ops' = ops + 1
      /\ resp'.op \in {"updateBookingStatus", "cancelBooking"}
      /\ resp'.outcome # "ok")
     => (bookings' = bookings /\ inv' = inv /\ payments' = payments)
    ]_vars

\* a transition of the pending booking b2 raised a store error: b2 is still
\* pending and its nights still hold the units it reserves
C21_Witness ==
  /\ resp = [op |-> "updateBookingStatus", outcome |-> "StoreError"]
  /\ bookings["b2"] # NoBooking /\ bookings["b2"].status = "pending"
  /\ \E r \in Rooms : inv[<<r, 1>>] # NoRow /\ inv[<<r, 1>>].available_units = 0

\* C22: a notification insert that raises does not fail createBooking: the
\* step that follows the inventory loop keeps the transaction, with the
\* booking, its items and its inventory writes, on its way to the commit.
C22_NotificationNeverFailsBooking ==
  [][\A p \in Procs :
       (/\ pc[p] = "inventory" /\ tx[p].idx > Len(InventoryUpdates(req[p]))
        /\ pc'[p] # pc[p])
       => (pc'[p] = "readback" /\ tx'[p] = tx[p] /\ result'[p] # "StoreError")
    ]_vars

\* C23: createBooking invalidates the cached availability entries only after
\* its transaction has committed and its lock key is released: at the step
\* that calls delPattern('availability:*') the booking is a committed row,
\* the transaction is closed and the key is no longer in the store.
InvalidatesAvailability(p) == pc[p] = "inventory" /\ pc'[p] = "readback"
C23_CommitReleaseInvalidate ==
  [][\A p \in Procs :
       InvalidatesAvailability(p)
       => (bookings[NewId[p]] # NoBooking /\ ~tx[p].open /\ LockKey(req[p]) \notin locks)
    ]_vars

\* C24: the audit entry a successful updateBookingStatus writes names the
\* actor and the booking, has the status the booking had before the call as
\* old_status and the status it has after it as new_status.
C24_AuditBeforeAfter ==
  [][(/\ ops' = ops + 1
      /\ resp' = [op |-> "updateBookingStatus", outcome |-> "ok"])
     => \E b \in BookingIds :
          /\ bookings[b] # NoBooking /\ audit' # NoAudit
          /\ audit'.booking_id = b /\ audit'.userId = Actor
          /\ audit'.old_status = bookings[b].status
          /\ audit'.new_status = bookings'[b].status
    ]_vars

\* C25: updateUserBooking by the owner succeeds only for a pending booking
\* whose check-in is at least 24 hours away; a call that does not succeed
\* changes no booking, inventory row or payment; a call that succeeds
\* replaces the supplied dates of that booking and nothing else: its items,
\* its total_amount, its status, the other bookings, every room_inventory row
\* and the payments stay as they were.
C25_UpdateUserBookingFrame ==
  [][(resp'.op = "updateUserBooking" /\ ops' = ops + 1)
     => /\ inv' = inv /\ payments' = payments
        /\ IF resp'.outcome = "ok"
           THEN LET b == audit'.booking_id
                    f == audit'.updated_fields
                IN /\ bookings[b] # NoBooking /\ bookings[b].user_id = audit'.userId
                   /\ bookings[b].status = "pending"
                   /\ 24 * bookings[b].checkin_date - now >= 24
                   /\ \A c \in BookingIds \ {b} : bookings'[c] = bookings[c]
                   /\ "checkin_date" \notin f
                        => bookings'[b].checkin_date = bookings[b].checkin_date
                   /\ "checkout_date" \notin f
                        => bookings'[b].checkout_date = bookings[b].checkout_date
                   /\ bookings'[b].items = bookings[b].items
                   /\ bookings'[b].total_amount = bookings[b].total_amount
                   /\ bookings'[b].status = bookings[b].status
                   /\ bookings'[b].user_id = bookings[b].user_id
           ELSE bookings' = bookings
    ]_vars

\* the owner moved the check-in of b1 from day 2 to day 1: the amount is
\* still that of one night and rA's row of day 2 is as the booking left it
C25_Witness ==
  /\ resp = [op |-> "updateUserBooking", outcome |-> "ok"]
  /\ ops = 1
  /\ bookings["b1"] # NoBooking /\ bookings["b1"].status = "pending"
  /\ bookings["b1"].checkin_date = 1 /\ bookings["b1"].checkout_date = 3
  /\ bookings["b1"].total_amount = price_per_night["rA"]
  /\ inv[<<"rA", 2>>] # NoRow /\ inv[<<"rA", 1>>] = NoRow

\* C26: a cancelBooking or updateUserBooking on an existing booking by a
\* user who does not own it fails with AccessDenied (403), which is not the
\* NotFound (404) of a missing booking, and changes no booking, inventory
\* row or payment.
C26_AccessDeniedDistinct ==
  [][\A b \in BookingIds, u \in Users :
       (/\ resp'.op \in {"cancelBooking", "updateUserBooking"} /\ ops' = ops + 1
        /\ bookings[b] # NoBooking /\ bookings[b].user_id # u
        /\ (CancelBooking(b, u) \/ UpdateUserBooking(b, u)))
       => /\ resp'.outcome = "AccessDenied"
          /\ bookings' = bookings /\ inv' = inv /\ payments' = payments
    ]_vars

C29_CacheNotStale ==
  [][(/\ ops' = ops + 1
      /\ resp'.op \in {"updateBookingStatus", "updateUserBooking"}
      /\ resp'.outcome = "ok")
     => (cache'[audit'.booking_id] = NoEntry
         \/ cache'[audit'.booking_id] = bookings'[audit'.booking_id])
    ]_vars

\* C30: for every completed payment, the amounts of the refund rows that
\* name it as their original, those of failed refunds left aside, add up to
\* at most its amount.
RefundsOf(i) ==
  {j \in 1..Len(payments) : /\ payments[j].type = "refund" /\ payments[j].status # "failed"
                            /\ payments[j].original_payment_id = i}
C30_RefundsWithinPayment ==
  \A i \in 1..Len(payments) :
    (payments[i].type = "payment" /\ payments[i].status = "completed")
    => SumOver(RefundsOf(i), [j \in RefundsOf(i) |-> payments[j].amount]) <= payments[i].amount

====
